---- MODULE Spec2Model ----
(***************************************************************************)
(* Availability gap engine of the QuickWash backend (src/mainV3.py, with   *)
(* the earlier versions src/mainV2.py and src/main.py).                    *)
(*                                                                         *)
(* An instant is a record [min, us]: whole minutes since 00:00 UTC of day  *)
(* 0 and the microseconds inside that minute (0 .. 59999999), so that the  *)
(* comparison and subtraction of Python's aware datetimes are exact.       *)
(* A reservation carries ISO-8601 timestamps with a UTC offset, modelled   *)
(* by their fields [day, hour, minute, second, micro, tz]; fromisoformat   *)
(* turns them into instants.  A schedule string is the sequence of the     *)
(* code points of its characters; Python's None is the sequence <<-1>>.    *)
(***************************************************************************)
EXTENDS Integers, Sequences, FiniteSets, TLC

\* ------------------------------------------------------------------------
\* datetime arithmetic
\* ------------------------------------------------------------------------

MinutesPerHour == 60
HoursPerDay == 24
MinutesPerDay == HoursPerDay * MinutesPerHour
MicrosPerSecond == 1000000
RO_OFFSET_HOURS == 2
RO_OFFSET == RO_OFFSET_HOURS * MinutesPerHour

Instant(d, h, m, s, u) ==
    [min |-> d * MinutesPerDay + h * MinutesPerHour + m,
     us  |-> s * MicrosPerSecond + u]

\* a < b on aware datetimes
Lt(a, b) == a.min < b.min \/ (a.min = b.min /\ a.us < b.us)

\* a >= b on aware datetimes
Ge(a, b) == ~Lt(a, b)

\* datetime.fromisoformat of an offset-carrying ISO timestamp
fromisoformat(t) ==
    [min |-> t.day * MinutesPerDay + t.hour * MinutesPerHour + t.minute - t.tz,
     us  |-> t.second * MicrosPerSecond + t.micro]

\* x.astimezone(RO_OFFSET): the local wall clock, as minutes since local
\* 00:00 of day 0 plus the unchanged sub-minute part
astimezone_ro(x) == [min |-> x.min + RO_OFFSET, us |-> x.us]

\* x.astimezone(timezone.utc) of a local wall clock
astimezone_utc(l) == [min |-> l.min - RO_OFFSET, us |-> l.us]

\* .hour and .minute of a local wall clock
hour_of(l) == (l.min % MinutesPerDay) \div MinutesPerHour
minute_of(l) == l.min % MinutesPerHour

\* hour=h is accepted by datetime.replace only for 0..23 (ValueError otherwise)
replace_ok(h) == h >= 0 /\ h <= 23

\* the days from 0001-01-01, the first day of a datetime, to day 0
\* (2024-01-01), and from day 0 to 9999-12-31, the last one
DaysSinceMinYear == 738885
DaysUntilMaxYear == 2913173

\* what t + timedelta(...) raises when the sum is no datetime
OverflowError == [raised |-> "OverflowError"]

\* t + timedelta(minutes=n)
plus_minutes(t, n) ==
    IF /\ (t.min + n) \div MinutesPerDay >= 0 - DaysSinceMinYear
       /\ (t.min + n) \div MinutesPerDay <= DaysUntilMaxYear
    THEN [min |-> t.min + n, us |-> t.us]
    ELSE OverflowError

\* l.replace(hour=h, minute=0, second=0): same local date, same microsecond
replace_hour(l, h) ==
    [min |-> (l.min \div MinutesPerDay) * MinutesPerDay + h * MinutesPerHour,
     us  |-> l.us % MicrosPerSecond]

\* the operands of the subtraction exchanged
gap_duration_swapped(a, b) == (a.min - b.min) - (IF a.us < b.us THEN 1 ELSE 0)

MicrosPerMinute == MinutesPerHour * MicrosPerSecond

\* the whole minutes of b - a (the floor of the exact quotient)
whole_minutes(a, b) == (b.min - a.min) - (IF b.us < a.us THEN 1 ELSE 0)

\* the microseconds b - a lacks to the next whole minute (a full minute when
\* b - a is a whole number of minutes)
micros_short(a, b) == MicrosPerMinute - ((b.us - a.us) % MicrosPerMinute)

\* total_seconds() and the division by 60 are two roundings to a double: a
\* difference that lacks at most this many microseconds to k minutes comes
\* out as k.0.  The seconds 60 * k lie above 2^34 from k = 286331154, above
\* 2^35 from k = 572662307 and above 2^36 from k = 1145324613, where half the
\* spacing of the doubles is 0.95, 1.9 and 3.8 microseconds
float_slack(k) ==
    IF k >= 1145324613 THEN 7
    ELSE IF k >= 572662307 THEN 3
    ELSE IF k >= 286331154 THEN 1
    ELSE 0

\* int((b - a).total_seconds() / 60) for b > a; for an integer d the float
\* quotient is >= d exactly when this integer is >= d
gap_duration(a, b) ==
    IF Lt(a, b)
          /\ micros_short(a, b) <= float_slack(whole_minutes(a, b) + 1)
    THEN whole_minutes(a, b) + 1
    ELSE whole_minutes(a, b)

\* ------------------------------------------------------------------------
\* parse_schedule
\* ------------------------------------------------------------------------

\* A string is the sequence of the code points of its characters (Python's
\* ord), so that every character a str can hold has a value here.

\* the characters U+0020..U+005F in code point order
PrintableLow ==
    << " ","!","\"","#","$","%","&","'","(",")","*","+",",","-",".","/","0",
       "1","2","3","4","5","6","7","8","9",":",";","<","=",">","?","@","A",
       "B","C","D","E","F","G","H","I","J","K","L","M","N","O","P","Q","R",
       "S","T","U","V","W","X","Y","Z","[","\\","]","^","_" >>

\* the characters U+0061..U+007E in code point order
PrintableHigh ==
    << "a","b","c","d","e","f","g","h","i","j","k","l","m","n","o","p","q",
       "r","s","t","u","v","w","x","y","z","{","|","}","~" >>

\* ord(c) for a printable ASCII character other than U+0060
ord(c) ==
    IF \E i \in 1..Len(PrintableLow) : PrintableLow[i] = c
    THEN 31 + (CHOOSE i \in 1..Len(PrintableLow) : PrintableLow[i] = c)
    ELSE 96 + (CHOOSE i \in 1..Len(PrintableHigh) : PrintableHigh[i] = c)

\* the str whose characters are written in s
Text(s) == [i \in 1..Len(s) |-> ord(s[i])]

\* the characters the parsing looks for
Colon == ord(":")
Dash == ord("-")
Plus == ord("+")
Underscore == ord("_")

\* None: a value no str equals (no character has a negative code point)
NoneStr == <<0 - 1>>

\* the characters str.strip() removes (str.isspace): tab, LF, VT, FF, CR,
\* U+001C..U+001F, blank, NEL, NBSP, and the Unicode space separators
Whitespace ==
    {9, 10, 11, 12, 13, 28, 29, 30, 31, 32, 133, 160, 5760}
        \cup (8192..8202) \cup {8232, 8233, 8239, 8287, 12288}

\* the characters int() skips around a literal: the same but U+001C..U+001F
IntWhitespace == Whitespace \ (28..31)

\* the runs <<first, last>> of the characters int() reads as decimal digits
\* (Unicode category Nd); in every run the digit values cycle 0..9
DecimalRanges ==
    { <<48, 57>>, <<1632, 1641>>, <<1776, 1785>>, <<1984, 1993>>,
      <<2406, 2415>>, <<2534, 2543>>, <<2662, 2671>>, <<2790, 2799>>,
      <<2918, 2927>>, <<3046, 3055>>, <<3174, 3183>>, <<3302, 3311>>,
      <<3430, 3439>>, <<3558, 3567>>, <<3664, 3673>>, <<3792, 3801>>,
      <<3872, 3881>>, <<4160, 4169>>, <<4240, 4249>>, <<6112, 6121>>,
      <<6160, 6169>>, <<6470, 6479>>, <<6608, 6617>>, <<6784, 6793>>,
      <<6800, 6809>>, <<6992, 7001>>, <<7088, 7097>>, <<7232, 7241>>,
      <<7248, 7257>>, <<42528, 42537>>, <<43216, 43225>>, <<43264, 43273>>,
      <<43472, 43481>>, <<43504, 43513>>, <<43600, 43609>>,
      <<44016, 44025>>, <<65296, 65305>>, <<66720, 66729>>,
      <<68912, 68921>>, <<69734, 69743>>, <<69872, 69881>>,
      <<69942, 69951>>, <<70096, 70105>>, <<70384, 70393>>,
      <<70736, 70745>>, <<70864, 70873>>, <<71248, 71257>>,
      <<71360, 71369>>, <<71472, 71481>>, <<71904, 71913>>,
      <<72016, 72025>>, <<72784, 72793>>, <<73040, 73049>>,
      <<73120, 73129>>, <<92768, 92777>>, <<92864, 92873>>,
      <<93008, 93017>>, <<120782, 120831>>, <<123200, 123209>>,
      <<123632, 123641>>, <<125264, 125273>>, <<130032, 130041>> }

Digits == UNION { r[1]..r[2] : r \in DecimalRanges }

AlwaysOpenLiteral ==
    Text(<<"0","0",":","0","0"," ","-"," ","2","4",":","0","0">>)

\* the value of a decimal digit
DigitVal(c) ==
    (c - (CHOOSE r \in DecimalRanges : c \in r[1]..r[2])[1]) % 10

\* needle in s (substring test)
Contains(s, needle) ==
    \E i \in 0..(Len(s) - Len(needle)) :
        \A j \in 1..Len(needle) : s[i + j] = needle[j]

\* index of the first occurrence of ch in s at or after from, 0 if none
IndexOf(s, ch, from) ==
    IF \E i \in from..Len(s) : s[i] = ch
    THEN CHOOSE i \in from..Len(s) :
             s[i] = ch /\ \A j \in from..(i - 1) : s[j] # ch
    ELSE 0

\* s without its leading characters of the set skipped
RECURSIVE skip_leading(_, _)
skip_leading(s, skipped) ==
    IF s # <<>> /\ Head(s) \in skipped THEN skip_leading(Tail(s), skipped)
    ELSE s

\* s without its trailing characters of the set skipped
RECURSIVE skip_trailing(_, _)
skip_trailing(s, skipped) ==
    IF s # <<>> /\ s[Len(s)] \in skipped
    THEN skip_trailing(SubSeq(s, 1, Len(s) - 1), skipped)
    ELSE s

\* s.lstrip()
lstrip(s) == skip_leading(s, Whitespace)

\* s.rstrip()
rstrip(s) == skip_trailing(s, Whitespace)

\* s.strip()
strip(s) == rstrip(lstrip(s))

\* the literal int() reads in s: s without the surrounding whitespace
int_strip(s) == skip_trailing(skip_leading(s, IntWhitespace), IntWhitespace)

\* s[:i-1] when i is the index of the separator, s when there is none
prefix_before(s, i) == IF i = 0 THEN s ELSE SubSeq(s, 1, i - 1)

\* s.split(':')[0]
before_colon(s) == prefix_before(s, IndexOf(s, Colon, 1))

\* s.split('-') has a second element
has_dash(s) == IndexOf(s, Dash, 1) # 0

\* s.split('-')[0]
first_part(s) == prefix_before(s, IndexOf(s, Dash, 1))

\* s.split('-')[1] when has_dash(s)
second_part(s) ==
    prefix_before(SubSeq(s, IndexOf(s, Dash, 1) + 1, Len(s)),
                  IndexOf(SubSeq(s, IndexOf(s, Dash, 1) + 1, Len(s)),
                          Dash, 1))

\* a stripped int() literal without its optional sign
drop_sign(t) ==
    IF t # <<>> /\ Head(t) \in {Plus, Dash} THEN Tail(t) ELSE t

\* digits with single underscores between them
digits_ok(b) ==
    /\ Len(b) > 0
    /\ \A i \in 1..Len(b) : b[i] \in Digits \/ b[i] = Underscore
    /\ b[1] # Underscore /\ b[Len(b)] # Underscore
    /\ \A i \in 1..(Len(b) - 1) : ~(b[i] = Underscore /\ b[i + 1] = Underscore)

\* sys.get_int_max_str_digits(): the longest decimal literal int() converts
MaxStrDigits == 4300

\* the digits of a literal, its underscores not counted
digit_count(b) == Cardinality({i \in 1..Len(b) : b[i] # Underscore})

\* int(s) succeeds: optional whitespace, optional sign, digits, no more of
\* them than the conversion limit
int_ok(s) ==
    /\ digits_ok(drop_sign(int_strip(s)))
    /\ digit_count(drop_sign(int_strip(s))) <= MaxStrDigits

RECURSIVE digits_value(_, _)
digits_value(b, acc) ==
    IF b = <<>> THEN acc
    ELSE IF Head(b) = Underscore THEN digits_value(Tail(b), acc)
    ELSE digits_value(Tail(b), acc * 10 + DigitVal(Head(b)))

\* the sign of a stripped int() literal applied to v
signed(t, v) == IF t # <<>> /\ Head(t) = Dash THEN 0 - v ELSE v

\* int(s) when int_ok(s)
int_value(s) ==
    signed(int_strip(s), digits_value(drop_sign(int_strip(s)), 0))

\* only the field that fails falls back: a bad second field gives (first, 24)
parse_fields_partial(a, b) ==
    IF int_ok(a)
    THEN <<int_value(a), IF int_ok(b) THEN int_value(b) ELSE 24>>
    ELSE <<0, 24>>

\* the return inside the try, or the one of the bare except when an int()
\* fails
parse_fields(a, b) ==
    IF int_ok(a) /\ int_ok(b) THEN <<int_value(a), int_value(b)>> ELSE <<0, 24>>

parse_schedule(schedule_str) ==
    IF schedule_str = NoneStr \/ schedule_str = <<>>
       \/ Contains(schedule_str, AlwaysOpenLiteral)
    THEN <<0, 24>>
    ELSE IF ~has_dash(schedule_str)
    THEN <<0, 24>>
    ELSE parse_fields(before_colon(strip(first_part(schedule_str))),
                      before_colon(strip(second_part(schedule_str))))

\* ------------------------------------------------------------------------
\* calculeaza_gaps: open segments and window normalisation
\* ------------------------------------------------------------------------

\* an overnight schedule is kept as the single pair (open, close)
open_intervals_no_wrap(deschidere, inchidere) ==
    IF deschidere # inchidere
    THEN << <<deschidere, inchidere>> >>
    ELSE << <<0, HoursPerDay>> >>

\* the open segments of one local day
open_intervals(deschidere, inchidere) ==
    IF deschidere < inchidere
    THEN << <<deschidere, inchidere>> >>
    ELSE IF deschidere > inchidere
    THEN << <<0, inchidere>>, <<deschidere, HoursPerDay>> >>
    ELSE << <<0, HoursPerDay>> >>

\* open_intervals of the pair returned by parse_schedule
open_intervals_of(hrs) == open_intervals(hrs[1], hrs[2])

\* current_hour = now_ro.hour + now_ro.minute / 60, kept in minutes so that
\* start_h <= current_hour is start_h * 60 <= current_hour_min
current_hour_min(now_ro) == hour_of(now_ro) * MinutesPerHour + minute_of(now_ro)

\* the opening hour itself is taken as closed: start_h < current_hour < end_h
in_segment_after_start(seg, chm) ==
    seg[1] * MinutesPerHour < chm /\ chm < seg[2] * MinutesPerHour

\* start_h <= current_hour < end_h
in_segment(seg, chm) ==
    seg[1] * MinutesPerHour <= chm /\ chm < seg[2] * MinutesPerHour

\* the loop over open_intervals; st holds the four locals it assigns
RECURSIVE segment_loop(_, _, _)
segment_loop(segs, chm, st) ==
    IF segs = <<>> THEN st
    ELSE IF in_segment(Head(segs), chm)
    THEN [st EXCEPT !.is_open_now = TRUE,
                    !.current_closing_hour = Head(segs)[2]]
    ELSE IF Head(segs)[1] * MinutesPerHour > chm
            /\ (~st.has_next \/ Head(segs)[1] < st.next_open_hour)
    THEN segment_loop(Tail(segs), chm,
             [st EXCEPT !.has_next = TRUE,
                        !.next_open_hour = Head(segs)[1],
                        !.current_closing_hour = Head(segs)[2]])
    ELSE segment_loop(Tail(segs), chm, st)

\* the locals before the loop (next_open_hour = None is has_next = FALSE)
segment_init ==
    [is_open_now |-> FALSE, has_next |-> FALSE, next_open_hour |-> 0,
     current_closing_hour |-> HoursPerDay]

\* the window start is kept although the location is closed
adjusted_start_unmoved(start_window, st) == start_window

\* adjusted_start_utc, given the locals left by the loop
adjusted_start(start_window, st) ==
    IF st.is_open_now THEN start_window
    ELSE astimezone_utc(replace_hour(astimezone_ro(start_window),
                                     st.next_open_hour))

\* the else branch is missing: a location that does not open again today is
\* scanned from the window start
normalize_from_no_else(start_window, end_window, st) ==
    IF ~st.is_open_now /\ ~st.has_next
    THEN [current_time |-> start_window,
          current_closing_hour |-> st.current_closing_hour,
          outcome |-> IF Ge(start_window, end_window)
                      THEN "returned" ELSE "scan"]
    ELSE IF ~st.is_open_now /\ ~replace_ok(st.next_open_hour)
    THEN [current_time |-> start_window,
          current_closing_hour |-> st.current_closing_hour,
          outcome |-> "raised"]
    ELSE [current_time |-> adjusted_start(start_window, st),
          current_closing_hour |-> st.current_closing_hour,
          outcome |-> IF Ge(adjusted_start(start_window, st), end_window)
                      THEN "returned" ELSE "scan"]

\* the if / elif / else after the loop and the test against end_window_utc:
\* "scan" with the cursor and the closing hour, "returned" (empty list) or
\* "raised" (ValueError of datetime.replace)
normalize_from(start_window, end_window, st) ==
    IF ~st.is_open_now /\ ~st.has_next
    THEN [current_time |-> start_window,
          current_closing_hour |-> st.current_closing_hour,
          outcome |-> "returned"]
    ELSE IF ~st.is_open_now /\ ~replace_ok(st.next_open_hour)
    THEN [current_time |-> start_window,
          current_closing_hour |-> st.current_closing_hour,
          outcome |-> "raised"]
    ELSE [current_time |-> adjusted_start(start_window, st),
          current_closing_hour |-> st.current_closing_hour,
          outcome |-> IF Ge(adjusted_start(start_window, st), end_window)
                      THEN "returned" ELSE "scan"]

\* the four locals after the loop over open_intervals
segment_locals(start_window, program) ==
    segment_loop(open_intervals_of(parse_schedule(program)),
                 current_hour_min(astimezone_ro(start_window)),
                 segment_init)

\* the local adjusted_start_utc when the function leaves the normalisation:
\* <<>> is None, <<t>> the instant t
adjusted_start_utc_of(start_window, st) ==
    IF st.is_open_now \/ (st.has_next /\ replace_ok(st.next_open_hour))
    THEN <<adjusted_start(start_window, st)>>
    ELSE <<>>

\* everything up to "current_time = adjusted_start_utc"
normalize(start_window, end_window, program) ==
    normalize_from(start_window, end_window,
                   segment_locals(start_window, program))

\* ------------------------------------------------------------------------
\* calculeaza_gaps: the scan over the sorted reservations
\* ------------------------------------------------------------------------

\* sorted(rezervari, key=fromisoformat(ora_start)): stable insertion
RECURSIVE insert_sorted(_, _)
insert_sorted(r, sorted_seq) ==
    IF sorted_seq = <<>> THEN <<r>>
    ELSE IF Lt(fromisoformat(r.ora_start), fromisoformat(Head(sorted_seq).ora_start))
    THEN <<r>> \o sorted_seq
    ELSE <<Head(sorted_seq)>> \o insert_sorted(r, Tail(sorted_seq))

RECURSIVE sorted(_)
sorted(rez) ==
    IF rez = <<>> THEN <<>>
    ELSE insert_sorted(rez[Len(rez)], sorted(SubSeq(rez, 1, Len(rez) - 1)))

\* gap_start_ro.replace(hour=h_close, minute=m_close, second=0) in UTC
ora_inchidere_azi_utc(current_time, closing_hour) ==
    astimezone_utc(replace_hour(astimezone_ro(current_time), closing_hour))

\* the replace above raises ValueError
clip_raises(closing_hour) ==
    closing_hour # HoursPerDay /\ ~replace_ok(closing_hour)

\* the cut is also applied for closing hour 24, taken as hour 0
clip_also_at_24(limit_end, current_time, closing_hour) ==
    IF Lt(ora_inchidere_azi_utc(current_time, closing_hour % HoursPerDay), limit_end)
    THEN ora_inchidere_azi_utc(current_time, closing_hour % HoursPerDay)
    ELSE limit_end

\* limit_end after the cut at today's closing hour
clip(limit_end, current_time, closing_hour) ==
    IF closing_hour # HoursPerDay
       /\ Lt(ora_inchidere_azi_utc(current_time, closing_hour), limit_end)
    THEN ora_inchidere_azi_utc(current_time, closing_hour)
    ELSE limit_end

\* the test against durata_minima_minute is left out
emit_unfiltered(gaps_so_far, current, limit_end, durata) ==
    IF Lt(current, limit_end)
    THEN Append(gaps_so_far,
                [start |-> current, end |-> limit_end,
                 minute_disponibile |-> gap_duration(current, limit_end)])
    ELSE gaps_so_far

\* the two nested ifs that append to gaps
emit(gaps_so_far, current, limit_end, durata) ==
    IF Lt(current, limit_end) /\ gap_duration(current, limit_end) >= durata
    THEN Append(gaps_so_far,
                [start |-> current, end |-> limit_end,
                 minute_disponibile |-> gap_duration(current, limit_end)])
    ELSE gaps_so_far

\* the cursor is set to the end of every reservation, also an earlier one
advance_always(current, res_end) == res_end

\* the cursor is never moved past a reservation
advance_never(current, res_end) == current

\* if res_end > current_time: current_time = res_end
advance(current, res_end) ==
    IF Lt(current, res_end) THEN res_end ELSE current

\* one iteration of "for res in rezervari_sorted"
scan_step(st, res, closing_hour, durata) ==
    LET res_start == fromisoformat(res.ora_start)
        res_end == fromisoformat(res.ora_sfarsit)
    IN IF Lt(st.current_time, res_start) /\ clip_raises(closing_hour)
       THEN [st EXCEPT !.outcome = "raised"]
       ELSE [st EXCEPT
               !.gaps = IF Lt(st.current_time, res_start)
                        THEN emit(st.gaps, st.current_time,
                                  clip(res_start, st.current_time, closing_hour),
                                  durata)
                        ELSE st.gaps,
               !.current_time = advance(st.current_time, res_end)]

\* the block after the loop and the return
final_step(st, end_window, closing_hour, durata) ==
    IF Lt(st.current_time, end_window) /\ clip_raises(closing_hour)
    THEN [st EXCEPT !.outcome = "raised"]
    ELSE [st EXCEPT
            !.gaps = IF Lt(st.current_time, end_window)
                     THEN emit(st.gaps, st.current_time,
                               clip(end_window, st.current_time, closing_hour),
                               durata)
                     ELSE st.gaps,
            !.outcome = "returned"]

RECURSIVE scan_all(_, _, _, _, _)
scan_all(st, rez_sorted, end_window, closing_hour, durata) ==
    IF st.outcome = "raised" THEN st
    ELSE IF rez_sorted = <<>>
    THEN final_step(st, end_window, closing_hour, durata)
    ELSE scan_all(scan_step(st, Head(rez_sorted), closing_hour, durata),
                  Tail(rez_sorted), end_window, closing_hour, durata)

\* what the call gives back: the outcome and, when it returned, the list
result_of(st) ==
    [outcome |-> st.outcome,
     gaps |-> IF st.outcome = "raised" THEN <<>> ELSE st.gaps]

\* the call from the normalised window n on
calculeaza_gaps_from(n, rez_sorted, end_window, durata) ==
    IF n.outcome = "scan"
    THEN result_of(scan_all([current_time |-> n.current_time, gaps |-> <<>>,
                             outcome |-> "scan"],
                            rez_sorted, end_window, n.current_closing_hour,
                            durata))
    ELSE [outcome |-> n.outcome, gaps |-> <<>>]

\* the whole call: [outcome |-> "returned" or "raised", gaps |-> the list]
calculeaza_gaps(start_window, end_window, rez, durata, program) ==
    calculeaza_gaps_from(normalize(start_window, end_window, program),
                         sorted(rez), end_window, durata)

\* ------------------------------------------------------------------------
\* calculeaza_gaps of src/main.py (no schedule)
\* ------------------------------------------------------------------------

\* one iteration of the loop of main.py
main_scan_step(st, res, durata) ==
    LET res_start == fromisoformat(res.ora_start)
        res_end == fromisoformat(res.ora_sfarsit)
    IN [current_time |-> IF Lt(st.current_time, res_end)
                         THEN res_end ELSE st.current_time,
        gaps |-> IF Lt(st.current_time, res_start)
                    /\ gap_duration(st.current_time, res_start) >= durata
                 THEN Append(st.gaps,
                        [start |-> st.current_time, end |-> res_start,
                         minute_disponibile |->
                             gap_duration(st.current_time, res_start)])
                 ELSE st.gaps]

RECURSIVE main_scan_all(_, _, _, _)
main_scan_all(st, rez_sorted, end_window, durata) ==
    IF rez_sorted = <<>>
    THEN IF Lt(st.current_time, end_window)
            /\ gap_duration(st.current_time, end_window) >= durata
         THEN Append(st.gaps,
                [start |-> st.current_time, end |-> end_window,
                 minute_disponibile |->
                     gap_duration(st.current_time, end_window)])
         ELSE st.gaps
    ELSE main_scan_all(main_scan_step(st, Head(rez_sorted), durata),
                       Tail(rez_sorted), end_window, durata)

\* the list returned by main.py's calculeaza_gaps
main_calculeaza_gaps(start_window, end_window, rez, durata) ==
    main_scan_all([current_time |-> start_window, gaps |-> <<>>],
                  sorted(rez), end_window, durata)

\* ------------------------------------------------------------------------
\* calculeaza_gaps of src/mainV2.py: the same statements, but
\* current_closing_hour is not assigned before the loop over open_intervals
\* ------------------------------------------------------------------------

\* the locals before the loop; closing_bound tells whether the name
\* current_closing_hour has been assigned
v2_segment_init ==
    [is_open_now |-> FALSE, has_next |-> FALSE, next_open_hour |-> 0,
     current_closing_hour |-> 0, closing_bound |-> FALSE]

\* the branch that records the next opening hour does not assign
\* current_closing_hour
RECURSIVE v2_segment_loop_next_unassigned(_, _, _)
v2_segment_loop_next_unassigned(segs, chm, st) ==
    IF segs = <<>> THEN st
    ELSE IF in_segment(Head(segs), chm)
    THEN [st EXCEPT !.is_open_now = TRUE,
                    !.current_closing_hour = Head(segs)[2],
                    !.closing_bound = TRUE]
    ELSE IF Head(segs)[1] * MinutesPerHour > chm
            /\ (~st.has_next \/ Head(segs)[1] < st.next_open_hour)
    THEN v2_segment_loop_next_unassigned(Tail(segs), chm,
             [st EXCEPT !.has_next = TRUE,
                        !.next_open_hour = Head(segs)[1]])
    ELSE v2_segment_loop_next_unassigned(Tail(segs), chm, st)

\* the loop over open_intervals of mainV2.py
RECURSIVE v2_segment_loop(_, _, _)
v2_segment_loop(segs, chm, st) ==
    IF segs = <<>> THEN st
    ELSE IF in_segment(Head(segs), chm)
    THEN [st EXCEPT !.is_open_now = TRUE,
                    !.current_closing_hour = Head(segs)[2],
                    !.closing_bound = TRUE]
    ELSE IF Head(segs)[1] * MinutesPerHour > chm
            /\ (~st.has_next \/ Head(segs)[1] < st.next_open_hour)
    THEN v2_segment_loop(Tail(segs), chm,
             [st EXCEPT !.has_next = TRUE,
                        !.next_open_hour = Head(segs)[1],
                        !.current_closing_hour = Head(segs)[2],
                        !.closing_bound = TRUE])
    ELSE v2_segment_loop(Tail(segs), chm, st)

\* the locals after the loop
v2_segment_locals(start_window, program) ==
    v2_segment_loop(open_intervals_of(parse_schedule(program)),
                    current_hour_min(astimezone_ro(start_window)),
                    v2_segment_init)

\* one iteration of the loop over the reservations: "unbound" is the
\* UnboundLocalError of reading current_closing_hour before any assignment
v2_scan_step(st, res, closing_bound, closing_hour, durata) ==
    IF Lt(st.current_time, fromisoformat(res.ora_start)) /\ ~closing_bound
    THEN [st EXCEPT !.outcome = "unbound"]
    ELSE scan_step(st, res, closing_hour, durata)

\* the block after the loop and the return
v2_final_step(st, end_window, closing_bound, closing_hour, durata) ==
    IF Lt(st.current_time, end_window) /\ ~closing_bound
    THEN [st EXCEPT !.outcome = "unbound"]
    ELSE final_step(st, end_window, closing_hour, durata)

RECURSIVE v2_scan_all(_, _, _, _, _, _)
v2_scan_all(st, rez_sorted, end_window, closing_bound, closing_hour, durata) ==
    IF st.outcome \in {"raised", "unbound"} THEN st
    ELSE IF rez_sorted = <<>>
    THEN v2_final_step(st, end_window, closing_bound, closing_hour, durata)
    ELSE v2_scan_all(v2_scan_step(st, Head(rez_sorted), closing_bound,
                                  closing_hour, durata),
                     Tail(rez_sorted), end_window, closing_bound,
                     closing_hour, durata)

\* what the call gives back
v2_result_of(st) ==
    [outcome |-> st.outcome,
     gaps |-> IF st.outcome = "returned" THEN st.gaps ELSE <<>>]

\* the call from the normalised window n on
v2_calculeaza_gaps_from(n, closing_bound, rez_sorted, end_window, durata) ==
    IF n.outcome = "scan"
    THEN v2_result_of(v2_scan_all([current_time |-> n.current_time,
                                   gaps |-> <<>>, outcome |-> "scan"],
                                  rez_sorted, end_window, closing_bound,
                                  n.current_closing_hour, durata))
    ELSE [outcome |-> n.outcome, gaps |-> <<>>]

\* the whole call of mainV2.py
v2_calculeaza_gaps(start_window, end_window, rez, durata, program) ==
    v2_calculeaza_gaps_from(
        normalize_from(start_window, end_window,
                       v2_segment_locals(start_window, program)),
        v2_segment_locals(start_window, program).closing_bound,
        sorted(rez), end_window, durata)

\* ------------------------------------------------------------------------
\* inputs of a call
\* ------------------------------------------------------------------------

MaxRez == 2

Iso(d, h, m, tz) ==
    [day |-> d, hour |-> h, minute |-> m, second |-> 0, micro |-> 0, tz |-> tz]

\* reservations around the 10:00-12:00 UTC window: inside it, with an equal
\* start written in the +02:00 offset, covering nearly all of it, with
\* start after end, after the window, and across the window start
RezRows ==
    << [ora_start |-> Iso(0, 10, 30, 0),   ora_sfarsit |-> Iso(0, 11, 0, 0)],
       [ora_start |-> Iso(0, 12, 30, 120), ora_sfarsit |-> Iso(0, 12, 45, 120)],
       [ora_start |-> Iso(0, 10, 0, 0),    ora_sfarsit |-> Iso(0, 11, 55, 0)],
       [ora_start |-> Iso(0, 11, 0, 0),    ora_sfarsit |-> Iso(0, 10, 30, 0)],
       [ora_start |-> Iso(0, 13, 0, 0),    ora_sfarsit |-> Iso(0, 14, 0, 0)],
       [ora_start |-> Iso(0, 9, 0, 0),     ora_sfarsit |-> Iso(0, 10, 15, 0)] >>

RezPool == { RezRows[i] : i \in DOMAIN RezRows }

RezLists == UNION { [1..n -> RezPool] : n \in 0..MaxRez }

Window(s, e) == [start |-> s, end |-> e]

\* 2568-05-30 counted from 2024-01-01: a window from 10:00:00.000001 of day
\* 0 to 10:00 of that day lacks one microsecond to LongDuration minutes
FarDay == 198842
LongDuration == FarDay * HoursPerDay * MinutesPerHour

\* (start_window_utc, end_window_utc); local time is two hours later
Windows ==
    { Window(Instant(0, 10, 0, 0, 0),       Instant(0, 12, 0, 0, 0)),
      Window(Instant(0, 10, 0, 30, 500000), Instant(0, 12, 0, 0, 0)),
      Window(Instant(0, 6, 0, 0, 0),        Instant(0, 7, 0, 0, 0)),
      Window(Instant(0, 6, 0, 0, 0),        Instant(0, 12, 0, 0, 0)),
      Window(Instant(0, 21, 0, 0, 0),       Instant(0, 23, 0, 0, 0)),
      Window(Instant(0, 18, 0, 0, 0),       Instant(0, 23, 0, 0, 0)),
      Window(Instant(0, 17, 30, 0, 0),      Instant(1, 9, 0, 0, 0)),
      Window(Instant(0, 17, 30, 30, 500000), Instant(0, 23, 0, 0, 0)),
      Window(Instant(0, 10, 0, 0, 1),        Instant(FarDay, 10, 0, 0, 0)),
      Window(Instant(0, 10, 0, 0, 0),       Instant(0, 10, 0, 0, 0)),
      Window(Instant(0, 10, 0, 0, 0),       Instant(0, 7, 0, 0, 0)) }

Durations == {0 - 45, 0, 15, 30, 90, LongDuration}

Str_garbage == Text(<<"g","a","r","b","a","g","e">>)
Str_NonStop == Text(<<"N","o","n","-","S","t","o","p">>)
Str_non_stop == Text(<<"n","o","n"," ","s","t","o","p">>)
Str_08_20 == Text(<<"0","8",":","0","0"," ","-"," ","2","0",":","0","0">>)
Str_22_06 == Text(<<"2","2",":","0","0"," ","-"," ","0","6",":","0","0">>)
Str_10_18 == Text(<<"1","0",":","0","0"," ","-"," ","1","8",":","0","0">>)
Str_08_08 == Text(<<"0","8",":","0","0","-","0","8",":","0","0">>)
Str_25_30 == Text(<<"2","5",":","0","0"," ","-"," ","3","0",":","0","0">>)
Str_08_30 == Text(<<"0","8",":","0","0"," ","-"," ","3","0",":","0","0">>)
Str_99_10 == Text(<<"9","9",":","0","0"," ","-"," ","1","0",":","0","0">>)
Str_08_20_nonstop ==
    Str_08_20 \o Text(<<" ","n","o","n","s","t","o","p">>)
Str_08_xx == Text(<<"0","8",":","0","0"," ","-"," ","x","x">>)

\* '\t08:00\xa0-\x1c20:00': whitespace of str.strip() other than the blank
Str_tab_08_20 ==
    <<9>> \o Text(<<"0","8",":","0","0">>) \o <<160, Dash, 28>>
        \o Text(<<"2","0",":","0","0">>)

\* '08:00 - 20:00' written with the ARABIC-INDIC digits U+0660..U+0669
Str_arabic_08_20 ==
    <<1632, 1640, Colon, 1632, 1632, 32, Dash, 32, 1634, 1632, Colon,
      1632, 1632>>

\* '08\x1c:00 - 20:00': U+001C is whitespace to str.strip(), not to int()
Str_08_fs_20 ==
    Text(<<"0","8">>) \o <<28>>
        \o Text(<<":","0","0"," ","-"," ","2","0",":","0","0">>)

Schedules ==
    { AlwaysOpenLiteral, <<>>, NoneStr, Str_garbage, Str_NonStop, Str_non_stop,
      Str_08_20, Str_22_06, Str_10_18, Str_08_08, Str_25_30, Str_08_30,
      Str_99_10, Str_08_20_nonstop, Str_08_xx, Str_tab_08_20,
      Str_arabic_08_20, Str_08_fs_20 }

\* ------------------------------------------------------------------------
\* one call of calculeaza_gaps, statement block by statement block
\* ------------------------------------------------------------------------

\* the arguments and the locals of the call, its position pc and its
\* outcome; apeluri holds the calls that the request has made before, each
\* with its arguments and the list it returned
VARIABLES start_window_utc, end_window_utc, rezervari, durata_minima_minute,
          program_str, pc, ora_deschidere, ora_inchidere, open_segs,
          adjusted_start_utc, current_time, current_closing_hour,
          rezervari_sorted, gaps, outcome, apeluri

\* the endpoints: the rows of table 'rezervari', the boxa_id values of table
\* 'boxe', the requests whose handler has started and not yet answered, the
\* clock read by datetime.now(timezone.utc), and the answer to the last
\* request answered
VARIABLES tabel_rezervari, tabel_boxe, cereri, now_utc, raspuns

inputs == <<start_window_utc, end_window_utc, rezervari, durata_minima_minute,
            program_str>>
vars == <<start_window_utc, end_window_utc, rezervari, durata_minima_minute,
          program_str, pc, ora_deschidere, ora_inchidere, open_segs,
          adjusted_start_utc, current_time, current_closing_hour,
          rezervari_sorted, gaps, outcome, apeluri,
          tabel_rezervari, tabel_boxe, cereri, now_utc, raspuns>>

\* the tables and the requests in progress
tabele == <<tabel_rezervari, tabel_boxe, cereri>>

\* the state of the endpoints
web == <<tabel_rezervari, tabel_boxe, cereri, now_utc, raspuns>>

\* the state of a call of calculeaza_gaps
call == <<start_window_utc, end_window_utc, rezervari, durata_minima_minute,
          program_str, pc, ora_deschidere, ora_inchidere, open_segs,
          adjusted_start_utc, current_time, current_closing_hour,
          rezervari_sorted, gaps, outcome, apeluri>>

\* no request has been answered
NoRequest ==
    [op |-> "none", status_code |-> 0, boxa_id |-> "", rezervare_id |-> 0,
     boxa_info |-> "none"]

\* the requests that one worker pool serves at the same time
MaxCereri == 2

\* no handler is running in the slot
NoCerere ==
    [op |-> "none", pas |-> "none", boxa_id |-> "", durata_minute |-> 0,
     rezervare_id |-> 0, ora |-> Instant(0, 0, 0, 0, 0)]

\* the boxa_id values of table 'boxe' before any request, and those a
\* request may name or the database may give to a new box
BoxeExistente == {"b1"}
BoxaIds == BoxeExistente \cup {"b9"}

\* the endpoints before any request
WebIdle ==
    /\ tabel_rezervari = <<>>
    /\ tabel_boxe = BoxeExistente
    /\ cereri = [i \in 1..MaxCereri |-> NoCerere]
    /\ now_utc = Instant(0, 0, 0, 0, 0)
    /\ raspuns = NoRequest

\* the list is shared between the calls and never emptied
fresh_gaps_shared(previous) == previous

\* gaps = [] at the top of the function, whatever an earlier call left
fresh_gaps(previous) == <<>>

\* the locals of a call that has not run yet (the unassigned ones hold the
\* values the function gives them first)
Locals ==
    /\ pc = "call"
    /\ ora_deschidere = 0
    /\ ora_inchidere = HoursPerDay
    /\ open_segs = <<>>
    /\ adjusted_start_utc = <<>>
    /\ current_time = start_window_utc
    /\ current_closing_hour = HoursPerDay
    /\ rezervari_sorted = <<>>
    /\ outcome = "running"

\* one call of calculeaza_gaps, with any arguments
Init ==
    /\ \E w \in Windows :
          start_window_utc = w.start /\ end_window_utc = w.end
    /\ rezervari \in RezLists
    /\ durata_minima_minute \in Durations
    /\ program_str \in Schedules
    /\ Locals
    /\ gaps = <<>>
    /\ apeluri = <<>>
    /\ WebIdle

\* ora_deschidere, ora_inchidere = parse_schedule(program_str), and the
\* construction of open_intervals
NormalizeHours(hrs) ==
    /\ ora_deschidere' = hrs[1]
    /\ ora_inchidere' = hrs[2]
    /\ open_segs' = open_intervals_of(hrs)

\* the assignments made by the normalisation whose result is n
NormalizeTo(n) ==
    /\ current_time' = n.current_time
    /\ current_closing_hour' = n.current_closing_hour
    /\ pc' = IF n.outcome = "scan" THEN "loop" ELSE "done"
    /\ outcome' = IF n.outcome = "scan" THEN "running" ELSE n.outcome
    /\ rezervari_sorted' = IF n.outcome = "scan" THEN sorted(rezervari) ELSE <<>>

\* lines 152-197: parse, segments, window normalisation, sort
Normalize ==
    /\ pc = "call"
    /\ NormalizeHours(parse_schedule(program_str))
    /\ adjusted_start_utc' =
           adjusted_start_utc_of(start_window_utc,
                                 segment_locals(start_window_utc, program_str))
    /\ NormalizeTo(normalize(start_window_utc, end_window_utc, program_str))
    /\ UNCHANGED <<inputs, gaps, apeluri, web>>

\* the assignments made by the loop iteration whose result is st
ScanTo(st) ==
    /\ pc' = IF st.outcome = "raised" THEN "done" ELSE pc
    /\ outcome' = IF st.outcome = "raised" THEN "raised" ELSE outcome
    /\ gaps' = IF st.outcome = "raised" THEN <<>> ELSE st.gaps
    /\ current_time' = st.current_time
    /\ rezervari_sorted' = IF st.outcome = "raised" THEN rezervari_sorted
                           ELSE Tail(rezervari_sorted)

\* lines 199-221: one reservation of the loop
ScanReservation ==
    /\ pc = "loop"
    /\ rezervari_sorted # <<>>
    /\ ScanTo(scan_step([current_time |-> current_time, gaps |-> gaps,
                         outcome |-> "scan"],
                        Head(rezervari_sorted), current_closing_hour,
                        durata_minima_minute))
    /\ UNCHANGED <<inputs, ora_deschidere, ora_inchidere, open_segs,
                   adjusted_start_utc, current_closing_hour, apeluri, web>>

\* the assignments made by the block after the loop whose result is st
FinalTo(st) ==
    /\ outcome' = st.outcome
    /\ gaps' = IF st.outcome = "raised" THEN <<>> ELSE st.gaps

\* lines 223-239: the gap after the last reservation, and the return
FinalGap ==
    /\ pc = "loop"
    /\ rezervari_sorted = <<>>
    /\ FinalTo(final_step([current_time |-> current_time, gaps |-> gaps,
                           outcome |-> "scan"],
                          end_window_utc, current_closing_hour,
                          durata_minima_minute))
    /\ pc' = "done"
    /\ UNCHANGED <<inputs, ora_deschidere, ora_inchidere, open_segs,
                   adjusted_start_utc, current_time, current_closing_hour,
                   rezervari_sorted, apeluri, web>>

Next == Normalize \/ ScanReservation \/ FinalGap

Spec == Init /\ [][Next]_vars

\* ------------------------------------------------------------------------
\* get_spalatorii_apropiate_disponibile: one request, which calls
\* calculeaza_gaps for box after box of location after location
\* ------------------------------------------------------------------------

\* the calls one request of the model makes at most
MaxApeluri == 3

\* end_window = now + timedelta(hours=2)
WindowHours == 2

\* the instants at which the request arrives
Nows == { Instant(0, 10, 0, 0, 0), Instant(0, 17, 30, 30, 500000) }

\* durata_dorita_min of the request
DurateDorite == {15, 90}

\* program_functionare of the locations in range
Programe == { NoneStr, <<>>, Str_08_20, Str_22_06, Str_25_30 }

\* loc.get('program_functionare', "00:00 - 24:00") or "00:00 - 24:00"
program_of(program_functionare) ==
    IF program_functionare = NoneStr \/ program_functionare = <<>>
    THEN AlwaysOpenLiteral
    ELSE program_functionare

\* rezervari_all: the active rows of the table with ora_sfarsit >= now and
\* ora_start <= end_window
rezervari_all(rows, now, end_window) ==
    { r \in {rows[i] : i \in DOMAIN rows} :
        /\ Ge(fromisoformat(r.ora_sfarsit), now)
        /\ ~Lt(end_window, fromisoformat(r.ora_start)) }

\* rez_boxa of a box: the rows of rezervari_all with its boxa_id, none or
\* one in the model
BoxLists(rows, now, end_window) ==
    {<<>>} \cup {<<r>> : r \in rezervari_all(rows, now, end_window)}

\* the call that has just returned, with its arguments
apel ==
    [start_window_utc |-> start_window_utc,
     end_window_utc |-> end_window_utc,
     rezervari |-> rezervari,
     durata_minima_minute |-> durata_minima_minute,
     program_str |-> program_str,
     gaps |-> gaps]

\* if gaps: boxe_cu_gaps.append(...)
has_gaps(a) == a.gaps # <<>>

\* "intervale" of the boxes of rezultat_final, location after location
intervale(calls) ==
    [i \in 1..Len(SelectSeq(calls, has_gaps)) |->
        SelectSeq(calls, has_gaps)[i].gaps]

\* the answer of the endpoint: the list, or 500 for any exception
RaspunsDisponibilitate(status_code, calls) ==
    [op |-> "disponibilitate", status_code |-> status_code, boxa_id |-> "",
     rezervare_id |-> 0, boxa_info |-> "none",
     boxe_libere |-> intervale(calls)]

\* the request has read the clock and fetched the locations, the boxes and
\* the reservations of the window; the table holds active rows of several
\* boxes
InitDisponibilitate ==
    /\ tabel_rezervari = RezRows
    /\ tabel_boxe = BoxeExistente
    /\ cereri = [i \in 1..MaxCereri |-> NoCerere]
    /\ raspuns = NoRequest
    /\ now_utc \in Nows
    /\ start_window_utc = now_utc
    /\ end_window_utc = plus_minutes(now_utc, WindowHours * MinutesPerHour)
    /\ durata_minima_minute \in DurateDorite
    /\ rezervari = <<>>
    /\ program_str = AlwaysOpenLiteral
    /\ pc = "request"
    /\ ora_deschidere = 0
    /\ ora_inchidere = HoursPerDay
    /\ open_segs = <<>>
    /\ adjusted_start_utc = <<>>
    /\ current_time = start_window_utc
    /\ current_closing_hour = HoursPerDay
    /\ rezervari_sorted = <<>>
    /\ outcome = "running"
    /\ gaps = <<>>
    /\ apeluri = <<>>

\* a call starts: its locals are those of a call that has not run yet, and
\* gaps is a new list
StartCall ==
    /\ pc' = "call"
    /\ ora_deschidere' = 0
    /\ ora_inchidere' = HoursPerDay
    /\ open_segs' = <<>>
    /\ adjusted_start_utc' = <<>>
    /\ current_time' = start_window_utc
    /\ current_closing_hour' = HoursPerDay
    /\ rezervari_sorted' = <<>>
    /\ outcome' = "running"
    /\ gaps' = fresh_gaps(gaps)

\* the call of the box before has returned its list, which the handler keeps
\* when it is not empty; an exception leaves both loops
CallReturned ==
    /\ pc = "done"
    /\ outcome = "returned"
    /\ Len(apeluri) + 1 < MaxApeluri
    /\ apeluri' = Append(apeluri, apel)

\* inner loop: the next box of the same location is evaluated with the same
\* window, duration and schedule and its own reservations
NextBox ==
    /\ CallReturned
    /\ rezervari' \in BoxLists(tabel_rezervari, start_window_utc,
                              end_window_utc)
    /\ UNCHANGED <<start_window_utc, end_window_utc, durata_minima_minute,
                   program_str, web>>
    /\ StartCall

\* outer loop: the first box of the next location that has a box, with that
\* location's schedule and the box's own reservations
NextLocation ==
    /\ \/ pc = "request" /\ UNCHANGED apeluri
       \/ CallReturned
    /\ \E program_functionare \in Programe :
          program_str' = program_of(program_functionare)
    /\ rezervari' \in BoxLists(tabel_rezervari, start_window_utc,
                              end_window_utc)
    /\ UNCHANGED <<start_window_utc, end_window_utc, durata_minima_minute,
                   web>>
    /\ StartCall

\* return rezultat_final after the last box, return [] when no location is
\* in range, or HTTPException(500) for an exception of calculeaza_gaps or of
\* the database client
Raspunde ==
    /\ \/ /\ pc = "request"
          /\ \E status_code \in {200, 500} :
                raspuns' = RaspunsDisponibilitate(status_code, <<>>)
       \/ /\ pc = "done"
          /\ outcome = "returned"
          /\ raspuns' = RaspunsDisponibilitate(200, Append(apeluri, apel))
       \/ /\ pc = "done"
          /\ outcome = "raised"
          /\ raspuns' = RaspunsDisponibilitate(500, <<>>)
    /\ pc' = "answered"
    /\ UNCHANGED <<inputs, ora_deschidere, ora_inchidere, open_segs,
                   adjusted_start_utc, current_time, current_closing_hour,
                   rezervari_sorted, gaps, outcome, apeluri, tabele, now_utc>>

NextDisponibilitate ==
    Normalize \/ ScanReservation \/ FinalGap \/ NextBox \/ NextLocation
        \/ Raspunde

SpecDisponibilitate == InitDisponibilitate /\ [][NextDisponibilitate]_vars

\* ------------------------------------------------------------------------
\* the construction of open_intervals on its own, for every pair of hours
\* ------------------------------------------------------------------------

\* the hours that datetime.replace(hour=...) accepts, the hours of a day
HourValues == 0..(HoursPerDay - 1)

\* hours that parse_schedule returns: those of a day, 24, and larger ones
ParsedHours == 0..(HoursPerDay + 1) \cup {30, 99}

InitSegments ==
    /\ ora_deschidere \in ParsedHours
    /\ ora_inchidere \in ParsedHours
    /\ open_segs = <<>>
    /\ pc = "segments"
    /\ start_window_utc = Instant(0, 0, 0, 0, 0)
    /\ end_window_utc = Instant(0, 0, 0, 0, 0)
    /\ rezervari = <<>>
    /\ durata_minima_minute = 0
    /\ program_str = <<>>
    /\ adjusted_start_utc = <<>>
    /\ current_time = start_window_utc
    /\ current_closing_hour = HoursPerDay
    /\ rezervari_sorted = <<>>
    /\ gaps = <<>>
    /\ outcome = "running"
    /\ apeluri = <<>>
    /\ WebIdle

\* lines 158-165: the if / elif / else that fills open_intervals
BuildSegments ==
    /\ pc = "segments"
    /\ open_segs' = open_intervals(ora_deschidere, ora_inchidere)
    /\ pc' = "segments_built"
    /\ UNCHANGED <<inputs, ora_deschidere, ora_inchidere, adjusted_start_utc,
                   current_time, current_closing_hour, rezervari_sorted, gaps,
                   outcome, apeluri, web>>

SpecSegments == InitSegments /\ [][BuildSegments]_vars

\* ------------------------------------------------------------------------
\* creare_rezervare, early_checkout, adauga_boxa and sterge_boxa over the
\* tables 'rezervari' and 'boxe'
\* ------------------------------------------------------------------------

MaxRows == 1
MaxTicks == 2

\* the time that passes between two steps of the handlers, in minutes
TickMinutes == 20

\* durata_minute of a request: any int, among them one that takes the end
\* before 0001-01-01
DurateMinute == {30, 0 - (DaysSinceMinYear + 1) * MinutesPerDay}

\* what supabase.auth.get_user does with the bearer token: it returns the
\* user, returns no user, or raises
AuthOutcomes == {"user", "no_user", "error"}

\* get_current_user: 0 when it returns the user, HTTPException(401) in both
\* other cases (the one raised for a missing user is caught and raised again
\* as 401)
get_current_user(auth) == IF auth = "user" THEN 0 ELSE 401

\* what the database does with an insert or an update: it stores the row,
\* answers without data, refuses with an exclusion-constraint conflict, or
\* fails otherwise
DbOutcomes == {"ok", "no_data", "exclusion", "error"}

\* what the database does with a select or a delete
ReadOutcomes == {"ok", "exclusion", "error"}

\* t.isoformat() of an aware UTC datetime
isoformat(t) ==
    [day |-> t.min \div MinutesPerDay,
     hour |-> (t.min % MinutesPerDay) \div MinutesPerHour,
     minute |-> t.min % MinutesPerHour,
     second |-> t.us \div MicrosPerSecond,
     micro |-> t.us % MicrosPerSecond,
     tz |-> 0]

\* the exceptions raised inside the try blocks: the HTTPException of the
\* handler itself (its text is "<status>: <detail>"), an error of the
\* database client, or the OverflowError of the datetime addition;
\* mentions_conflict tells whether the lower-cased text contains "conflict"
\* or "exclusion"
HttpRaised(code) == [status_code |-> code, mentions_conflict |-> FALSE]
DbRaised(db) == [status_code |-> 0, mentions_conflict |-> db = "exclusion"]
OverflowRaised == [status_code |-> 0, mentions_conflict |-> FALSE]

\* "except Exception as e" of creare_rezervare: every exception, the
\* handler's own HTTPException included, is answered with 409 or 500
creare_except(e) == IF e.mentions_conflict THEN 409 ELSE 500

\* "except Exception as e" of early_checkout: always 500
checkout_except(e) == 500

\* the status code after the select on table 'boxe': 0 when the handler
\* goes on
select_status(boxa_id, boxe, db) ==
    IF db # "ok" THEN creare_except(DbRaised(db))
    ELSE IF boxa_id \notin boxe THEN creare_except(HttpRaised(404))
    ELSE 0

\* the status code after start + timedelta(minutes=durata_minute): 0 when
\* the handler goes on
ore_status(start, durata_minute) ==
    IF plus_minutes(start, durata_minute) = OverflowError
    THEN creare_except(OverflowRaised)
    ELSE 0

\* the status code after the insert
insert_status(db) ==
    IF db = "ok" THEN 201
    ELSE IF db = "no_data" THEN creare_except(HttpRaised(500))
    ELSE creare_except(DbRaised(db))

\* the row that creare_rezervare inserts
data_insert(boxa_id, durata_minute, start) ==
    [boxa_id |-> boxa_id,
     ora_start |-> isoformat(start),
     ora_sfarsit |-> isoformat(plus_minutes(start, durata_minute)),
     status |-> "activa"]

\* the status code of early_checkout
checkout_status(rezervare_id, rows, db) ==
    IF db \in {"exclusion", "error"} THEN checkout_except(DbRaised(db))
    ELSE IF rezervare_id \in DOMAIN rows /\ db = "ok" THEN 200
    ELSE checkout_except(HttpRaised(404))

\* the rows after the update of early_checkout
checkout_update(rezervare_id, rows, now) ==
    [rows EXCEPT ![rezervare_id].ora_sfarsit = isoformat(now),
                 ![rezervare_id].status = "finalizata"]

InitRezervari ==
    /\ WebIdle
    /\ pc = "web"
    /\ start_window_utc = Instant(0, 0, 0, 0, 0)
    /\ end_window_utc = Instant(0, 0, 0, 0, 0)
    /\ rezervari = <<>>
    /\ durata_minima_minute = 0
    /\ program_str = <<>>
    /\ ora_deschidere = 0
    /\ ora_inchidere = HoursPerDay
    /\ open_segs = <<>>
    /\ adjusted_start_utc = <<>>
    /\ current_time = start_window_utc
    /\ current_closing_hour = HoursPerDay
    /\ rezervari_sorted = <<>>
    /\ gaps = <<>>
    /\ outcome = "running"
    /\ apeluri = <<>>

\* time passes between two steps
Tick ==
    /\ pc = "web"
    /\ now_utc.min < MaxTicks * TickMinutes
    /\ now_utc' = plus_minutes(now_utc, TickMinutes)
    /\ UNCHANGED <<call, tabele, raspuns>>

\* the first slot in which no handler runs
free_slot(i) ==
    /\ cereri[i].op = "none"
    /\ \A j \in 1..(i - 1) : cereri[j].op # "none"

\* the answer to a request
Raspuns(op, status_code, boxa_id, rezervare_id, boxa_info) ==
    [op |-> op, status_code |-> status_code, boxa_id |-> boxa_id,
     rezervare_id |-> rezervare_id, boxa_info |-> boxa_info]

\* the handler of slot i has answered
Answered(i) == cereri' = [cereri EXCEPT ![i] = NoCerere]

\* POST /rezervari arrives: get_current_user answers 401 or lets the
\* handler start
CreareRezervare ==
    /\ pc = "web"
    /\ \E i \in 1..MaxCereri, boxa_id \in BoxaIds,
          durata_minute \in DurateMinute, auth \in AuthOutcomes :
          /\ free_slot(i)
          /\ cereri' =
                 IF get_current_user(auth) = 401 THEN cereri
                 ELSE [cereri EXCEPT ![i] =
                          [op |-> "creare_rezervare", pas |-> "select",
                           boxa_id |-> boxa_id,
                           durata_minute |-> durata_minute,
                           rezervare_id |-> 0, ora |-> NoCerere.ora]]
          /\ raspuns' =
                 IF get_current_user(auth) = 401
                 THEN Raspuns("creare_rezervare", 401, boxa_id, 0, "none")
                 ELSE raspuns
    /\ UNCHANGED <<call, tabel_rezervari, tabel_boxe, now_utc>>

\* creare_rezervare, the select on table 'boxe' and the test of its data
CreareSelect ==
    /\ pc = "web"
    /\ \E i \in 1..MaxCereri, db \in ReadOutcomes :
          /\ cereri[i].op = "creare_rezervare"
          /\ cereri[i].pas = "select"
          /\ IF select_status(cereri[i].boxa_id, tabel_boxe, db) = 0
             THEN /\ cereri' = [cereri EXCEPT ![i].pas = "ore"]
                  /\ UNCHANGED raspuns
             ELSE /\ Answered(i)
                  /\ raspuns' =
                         Raspuns("creare_rezervare",
                                 select_status(cereri[i].boxa_id, tabel_boxe,
                                               db),
                                 cereri[i].boxa_id, 0,
                                 IF db # "ok" THEN "none" ELSE "empty")
    /\ UNCHANGED <<call, tabel_rezervari, tabel_boxe, now_utc>>

\* creare_rezervare, start = datetime.now(timezone.utc) and sfarsit
CreareOre ==
    /\ pc = "web"
    /\ \E i \in 1..MaxCereri :
          /\ cereri[i].op = "creare_rezervare"
          /\ cereri[i].pas = "ore"
          /\ IF ore_status(now_utc, cereri[i].durata_minute) = 0
             THEN /\ cereri' = [cereri EXCEPT ![i].pas = "insert",
                                              ![i].ora = now_utc]
                  /\ UNCHANGED raspuns
             ELSE /\ Answered(i)
                  /\ raspuns' =
                         Raspuns("creare_rezervare",
                                 ore_status(now_utc, cereri[i].durata_minute),
                                 cereri[i].boxa_id, 0, "data")
    /\ UNCHANGED <<call, tabel_rezervari, tabel_boxe, now_utc>>

\* creare_rezervare, the insert into table 'rezervari' and the answer
CreareInsert ==
    /\ pc = "web"
    /\ \E i \in 1..MaxCereri, db \in DbOutcomes :
          /\ cereri[i].op = "creare_rezervare"
          /\ cereri[i].pas = "insert"
          /\ db = "ok" => Len(tabel_rezervari) < MaxRows
          /\ Answered(i)
          /\ raspuns' = Raspuns("creare_rezervare", insert_status(db),
                                cereri[i].boxa_id, 0, "data")
          /\ tabel_rezervari' =
                 IF insert_status(db) = 201
                 THEN Append(tabel_rezervari,
                             data_insert(cereri[i].boxa_id,
                                         cereri[i].durata_minute,
                                         cereri[i].ora))
                 ELSE tabel_rezervari
    /\ UNCHANGED <<call, tabel_boxe, now_utc>>

\* PATCH /rezervari/{rezervare_id}/checkout arrives and reads the clock
EarlyCheckout ==
    /\ pc = "web"
    /\ \E i \in 1..MaxCereri, rezervare_id \in 1..(MaxRows + 1) :
          /\ free_slot(i)
          /\ cereri' = [cereri EXCEPT ![i] =
                           [op |-> "early_checkout", pas |-> "update",
                            boxa_id |-> "", durata_minute |-> 0,
                            rezervare_id |-> rezervare_id, ora |-> now_utc]]
    /\ UNCHANGED <<call, tabel_rezervari, tabel_boxe, now_utc, raspuns>>

\* early_checkout, the update of the row and the answer
CheckoutUpdate ==
    /\ pc = "web"
    /\ \E i \in 1..MaxCereri, db \in DbOutcomes :
          /\ cereri[i].op = "early_checkout"
          /\ cereri[i].pas = "update"
          /\ Answered(i)
          /\ raspuns' =
                 Raspuns("early_checkout",
                         checkout_status(cereri[i].rezervare_id,
                                         tabel_rezervari, db),
                         "", cereri[i].rezervare_id, "none")
          /\ tabel_rezervari' =
                 IF checkout_status(cereri[i].rezervare_id, tabel_rezervari,
                                    db) = 200
                 THEN checkout_update(cereri[i].rezervare_id, tabel_rezervari,
                                      cereri[i].ora)
                 ELSE tabel_rezervari
    /\ UNCHANGED <<call, tabel_boxe, now_utc>>

\* POST /spalatorii/{spalatorie_id}/boxe: the database stores the box under
\* a boxa_id of its own choice (201), or the handler answers 500
AdaugaBoxa ==
    /\ pc = "web"
    /\ \E boxa_id \in BoxaIds \ tabel_boxe, db \in DbOutcomes :
          /\ tabel_boxe' = IF db = "ok" THEN tabel_boxe \cup {boxa_id}
                           ELSE tabel_boxe
          /\ raspuns' = Raspuns("adauga_boxa", IF db = "ok" THEN 201 ELSE 500,
                                boxa_id, 0, "none")
    /\ UNCHANGED <<call, tabel_rezervari, cereri, now_utc>>

\* DELETE /spalatorii/{spalatorie_id}/boxe/{boxa_id}: 204 also when no box
\* has the boxa_id, 500 when the database refuses
StergeBoxa ==
    /\ pc = "web"
    /\ \E boxa_id \in BoxaIds, db \in ReadOutcomes :
          /\ tabel_boxe' = IF db = "ok" THEN tabel_boxe \ {boxa_id}
                           ELSE tabel_boxe
          /\ raspuns' = Raspuns("sterge_boxa", IF db = "ok" THEN 204 ELSE 500,
                                boxa_id, 0, "none")
    /\ UNCHANGED <<call, tabel_rezervari, cereri, now_utc>>

NextRezervari ==
    \/ Tick
    \/ CreareRezervare \/ CreareSelect \/ CreareOre \/ CreareInsert
    \/ EarlyCheckout \/ CheckoutUpdate
    \/ AdaugaBoxa \/ StergeBoxa

SpecRezervari == InitRezervari /\ [][NextRezervari]_vars

\* the call has returned a list
Returned == pc = "done" /\ outcome = "returned"

\* the stepwise run agrees with the function applied to the inputs
StepwiseAgrees ==
    pc = "done" =>
        [outcome |-> outcome, gaps |-> gaps]
          = calculeaza_gaps(start_window_utc, end_window_utc, rezervari,
                            durata_minima_minute, program_str)

\* ------------------------------------------------------------------------
\* properties
\* ------------------------------------------------------------------------

\* a <= b on aware datetimes
Le(a, b) == ~Lt(b, a)

Range(f) == {f[i] : i \in DOMAIN f}

\* the reservation has start < end
WellFormed(r) == Lt(fromisoformat(r.ora_start), fromisoformat(r.ora_sfarsit))

\* the input list without the reservations that have start >= end
RECURSIVE WithoutMalformed(_)
WithoutMalformed(rez) ==
    IF rez = <<>> THEN <<>>
    ELSE IF WellFormed(Head(rez))
    THEN <<Head(rez)>> \o WithoutMalformed(Tail(rez))
    ELSE WithoutMalformed(Tail(rez))

\* interval g and reservation r do not intersect
Apart(g, r) ==
    Le(g.end, fromisoformat(r.ora_start)) \/ Le(fromisoformat(r.ora_sfarsit), g.start)

\* consecutive intervals of a list: non-overlapping, strictly ascending starts
Ascending(gs) ==
    \A i \in 1..(Len(gs) - 1) :
        Le(gs[i].end, gs[i + 1].start) /\ Lt(gs[i].start, gs[i + 1].start)

\* the schedules that mean continuous operation
AlwaysOpenSchedules == {AlwaysOpenLiteral, Str_NonStop, Str_non_stop}

\* the instants at which a maximal uncovered range of the window can begin
\* or end
Endpoints ==
    {start_window_utc, end_window_utc}
      \cup {fromisoformat(r.ora_start) : r \in Range(rezervari)}
      \cup {fromisoformat(r.ora_sfarsit) : r \in Range(rezervari)}

\* some sub-range of the window, at least durata_minima_minute long, is
\* covered by no reservation
HasFreeRange ==
    \E a \in Endpoints, b \in Endpoints :
        /\ Le(start_window_utc, a) /\ Lt(a, b) /\ Le(b, end_window_utc)
        /\ whole_minutes(a, b) >= durata_minima_minute
        /\ \A r \in Range(rezervari) :
               WellFormed(r) => Apart([start |-> a, end |-> b], r)

\* C1: the returned list is pairwise non-overlapping and strictly ascending
\* by start, for every input.
C1_Ascending == Returned => Ascending(gaps)

\* C2: no returned interval intersects a reservation of the input that has
\* start < end (mainV3.py and main.py).
C2_NoIntersection ==
    Returned =>
        \A r \in Range(rezervari) :
            WellFormed(r) =>
                /\ \A g \in Range(gaps) : Apart(g, r)
                /\ \A g \in Range(main_calculeaza_gaps(start_window_utc,
                           end_window_utc, rezervari, durata_minima_minute)) :
                       Apart(g, r)

\* two intervals are returned around a well-formed reservation
C2_Witness ==
    /\ Returned /\ Len(gaps) = 2
    /\ \E r \in Range(rezervari) :
          /\ WellFormed(r)
          /\ gaps[1].end = fromisoformat(r.ora_start)
          /\ gaps[2].start = fromisoformat(r.ora_sfarsit)

\* C3: every returned interval has minute_disponibile >= durata_minima_minute.
C3_MinDuration ==
    Returned =>
        \A g \in Range(gaps) : g.minute_disponibile >= durata_minima_minute

\* a shorter free range before the returned interval was left out and the
\* returned one is exactly as long as the minimum
C3_Witness ==
    /\ Returned /\ Len(gaps) = 1
    /\ durata_minima_minute > 0
    /\ gaps[1].minute_disponibile >= durata_minima_minute
    /\ \E r \in Range(rezervari) :
          /\ Lt(start_window_utc, fromisoformat(r.ora_start))
          /\ gaps[1].start = fromisoformat(r.ora_sfarsit)
          /\ whole_minutes(start_window_utc, fromisoformat(r.ora_start))
                 < durata_minima_minute

\* C4: the call never raises because of the schedule string.
C4_NeverRaises == pc = "done" => outcome = "returned"

\* C5: with start_window_utc >= end_window_utc the call returns the empty
\* list without raising.
C5_InvertedWindowEmpty ==
    (pc = "done" /\ Ge(start_window_utc, end_window_utc)) =>
        (outcome = "returned" /\ gaps = <<>>)

\* C6: the call returns what it returns for the same input without the
\* reservations that have start >= end.
C6_MalformedDiscarded ==
    pc = "done" =>
        [outcome |-> outcome, gaps |-> gaps]
          = calculeaza_gaps(start_window_utc, end_window_utc,
                            WithoutMalformed(rezervari),
                            durata_minima_minute, program_str)

\* C7: a negative minimum duration gives exactly the result of minimum
\* duration 0.
C7_NegativeIsZero ==
    (pc = "done" /\ durata_minima_minute < 0) =>
        [outcome |-> outcome, gaps |-> gaps]
          = calculeaza_gaps(start_window_utc, end_window_utc, rezervari, 0,
                            program_str)

\* a call with a negative minimum duration returned several intervals
C7_Witness ==
    Returned /\ durata_minima_minute < 0 /\ Len(gaps) >= 2

\* C8: always-open schedule, no reservations, start < end: exactly the
\* window when it is at least the minimum duration long, else nothing.
C8_AlwaysOpenWholeWindow ==
    (/\ pc = "done"
     /\ program_str \in AlwaysOpenSchedules
     /\ rezervari = <<>>
     /\ Lt(start_window_utc, end_window_utc)) =>
        /\ outcome = "returned"
        /\ IF whole_minutes(start_window_utc, end_window_utc)
                 >= durata_minima_minute
           THEN /\ Len(gaps) = 1
                /\ gaps[1].start = start_window_utc
                /\ gaps[1].end = end_window_utc
           ELSE gaps = <<>>

\* C9: when the reservations leave no uncovered sub-range of the window
\* that is at least the minimum duration long, the returned list is empty.
C9_CoveredIsEmpty == (Returned /\ ~HasFreeRange) => gaps = <<>>

\* C10: every returned interval lies inside the window:
\* start_window_utc <= start < end <= end_window_utc.
C10_InsideWindow ==
    Returned =>
        \A g \in Range(gaps) :
            /\ Le(start_window_utc, g.start)
            /\ Lt(g.start, g.end)
            /\ Le(g.end, end_window_utc)


\* ------------------------------------------------------------------------
\* operating hours and the schedule parser
\* ------------------------------------------------------------------------

\* the local hour-of-day of instant t lies in one of the segments
OpenAt(t, segs) ==
    \E i \in DOMAIN segs :
        /\ segs[i][1] * MinutesPerHour <= current_hour_min(astimezone_ro(t))
        /\ current_hour_min(astimezone_ro(t)) < segs[i][2] * MinutesPerHour

\* the whole hours that lie strictly inside interval g, of its first day (the
\* offset is a whole number of hours, so local and UTC whole hours coincide;
\* the later ones have the same hours of day)
HourMarks(g) ==
    { m \in { [min |-> k * MinutesPerHour, us |-> 0] :
                k \in (g.start.min \div MinutesPerHour + 1)
                      ..(IF g.end.min - g.start.min > MinutesPerDay
                         THEN g.start.min \div MinutesPerHour + HoursPerDay
                         ELSE g.end.min \div MinutesPerHour) } :
        Lt(m, g.end) }

\* every instant of [g.start, g.end) is inside the segments: segments begin
\* and end on whole hours, so the start and the whole hours inside decide
WithinOpenHours(g, segs) ==
    OpenAt(g.start, segs) /\ \A m \in HourMarks(g) : OpenAt(m, segs)

\* C11: every instant of every returned interval has a local hour-of-day
\* inside one of the open segments of the schedule, for every horizon and
\* every reservation list
C11_ClippedToOpenHours ==
    Returned => \A i \in DOMAIN gaps : WithinOpenHours(gaps[i], open_segs)

\* strings that are not two integer hour fields separated by '-'
UnparsableSchedules ==
    {Str_garbage, Str_NonStop, Str_non_stop, Str_08_xx, Str_08_fs_20}

\* C12: for a string that cannot be parsed as two hour fields separated by
\* '-' parse_schedule returns (0, 24) without failing, and the call with no
\* reservations gives the result of the always-open schedule
C12_UnparsableIsAlwaysOpen ==
    program_str \in UnparsableSchedules =>
        /\ parse_schedule(program_str) = <<0, HoursPerDay>>
        /\ pc # "call" =>
              ora_deschidere = 0 /\ ora_inchidere = HoursPerDay
        /\ (pc = "done" /\ rezervari = <<>>) =>
              [outcome |-> outcome, gaps |-> gaps]
                = calculeaza_gaps(start_window_utc, end_window_utc, <<>>,
                                  durata_minima_minute, AlwaysOpenLiteral)

\* 'garbage' or '08:00 - xx' with no reservations and an open window: the
\* whole window is returned
C12_Witness ==
    /\ Returned
    /\ program_str \in {Str_garbage, Str_08_xx}
    /\ rezervari = <<>>
    /\ Len(gaps) = 1
    /\ gaps[1].start = start_window_utc
    /\ gaps[1].end = end_window_utc

\* the code points of 'A'..'Z'
UpperLetters == ord("A")..ord("Z")

\* str.lower() as far as the alias test can tell: no character outside
\* 'A'..'Z' lower-cases to a letter of 'non' or 'stop'
lower(s) ==
    [i \in DOMAIN s |->
        IF s[i] \in UpperLetters THEN s[i] + (ord("a") - ord("A")) ELSE s[i]]

AliasNon == Text(<<"n","o","n">>)
AliasStop == Text(<<"s","t","o","p">>)

\* the lower-cased string contains both alias tokens
HasAliasTokens(s) ==
    /\ s # NoneStr
    /\ Contains(lower(s), AliasNon)
    /\ Contains(lower(s), AliasStop)

\* C13: the hours parsed from a schedule string that is empty or whose
\* lower-cased form contains both 'non' and 'stop' are (0, 24), whatever else
\* the string contains
C13_AliasTokensAlwaysOpen ==
    (pc # "call" /\ (program_str = <<>> \/ HasAliasTokens(program_str))) =>
        ora_deschidere = 0 /\ ora_inchidere = HoursPerDay


\* ------------------------------------------------------------------------
\* repeated calls and the scenarios
\* ------------------------------------------------------------------------

\* the call that has just ended got the arguments of the earlier call a
SameInputs(a) ==
    /\ a.start_window_utc = start_window_utc
    /\ a.end_window_utc = end_window_utc
    /\ a.rezervari = rezervari
    /\ a.durata_minima_minute = durata_minima_minute
    /\ a.program_str = program_str

\* C14: a call that gets the window, the reservation list, the minimum
\* duration and the schedule string of an earlier call of the same request
\* returns the list which that call returned, equal and in the same order,
\* whatever calls were made before the first or between the two
C14_SameInputsSameOutput ==
    pc = "done" =>
        \A i \in DOMAIN apeluri :
            SameInputs(apeluri[i]) =>
                outcome = "returned" /\ gaps = apeluri[i].gaps

\* the third call of a request repeats the first, after a second call with
\* other arguments, and returns two intervals
C14_Witness ==
    /\ Returned
    /\ Len(apeluri) = 2
    /\ SameInputs(apeluri[1])
    /\ ~SameInputs(apeluri[2])
    /\ Len(gaps) = 2

\* window 10:00 to 12:00 UTC, '08:00 - 20:00', one reservation 10:30 to
\* 11:00, minimum duration 15
ScenarioA ==
    /\ start_window_utc = Instant(0, 10, 0, 0, 0)
    /\ end_window_utc = Instant(0, 12, 0, 0, 0)
    /\ program_str = Str_08_20
    /\ rezervari = << [ora_start |-> Iso(0, 10, 30, 0),
                       ora_sfarsit |-> Iso(0, 11, 0, 0)] >>
    /\ durata_minima_minute = 15

\* C15: scenario A returns exactly [10:00, 10:30] with 30 minutes and
\* [11:00, 12:00] with 60 minutes, in that order
C15_ScenarioA ==
    (pc = "done" /\ ScenarioA) =>
        /\ outcome = "returned"
        /\ gaps = << [start |-> Instant(0, 10, 0, 0, 0),
                      end |-> Instant(0, 10, 30, 0, 0),
                      minute_disponibile |-> 30],
                     [start |-> Instant(0, 11, 0, 0, 0),
                      end |-> Instant(0, 12, 0, 0, 0),
                      minute_disponibile |-> 60] >>

C15_Witness == Returned /\ ScenarioA

\* '22:00 - 06:00', window from local 23:00 (21:00 UTC) for two hours, no
\* reservations, minimum duration 30
ScenarioB ==
    /\ start_window_utc = Instant(0, 21, 0, 0, 0)
    /\ end_window_utc = Instant(0, 23, 0, 0, 0)
    /\ program_str = Str_22_06
    /\ rezervari = <<>>
    /\ durata_minima_minute = 30

\* the earlier of two instants
Earlier(a, b) == IF Lt(a, b) THEN a ELSE b

\* local hour h on the local calendar day of instant t, as a UTC instant
LocalHourSameDay(t, h) ==
    [min |-> (astimezone_ro(t).min \div MinutesPerDay) * MinutesPerDay
             + h * MinutesPerHour - RO_OFFSET,
     us |-> 0]

\* C16 as stated: scenario B returns one interval from the window start to
\* min(window end, 06:00 local on the calendar day of the scan)
C16_ScenarioB_EndsBySix ==
    (pc = "done" /\ ScenarioB) =>
        /\ outcome = "returned"
        /\ Len(gaps) = 1
        /\ gaps[1].start = start_window_utc
        /\ gaps[1].end = Earlier(end_window_utc,
                                 LocalHourSameDay(start_window_utc, 6))

\* C16 amended: scenario B returns one interval from the window start to the
\* window end, 120 minutes (at local 23:00 the segment is (22, 24), the
\* closing hour is 24 and nothing is cut)
C16_ScenarioB ==
    (pc = "done" /\ ScenarioB) =>
        /\ outcome = "returned"
        /\ current_closing_hour = HoursPerDay
        /\ gaps = << [start |-> Instant(0, 21, 0, 0, 0),
                      end |-> Instant(0, 23, 0, 0, 0),
                      minute_disponibile |-> 120] >>

C16_Witness == Returned /\ ScenarioB /\ Len(gaps) = 1

\* the opening hours of the day that lie after the local time of t
LaterOpenings(segs, t) ==
    { segs[i][1] : i \in { j \in DOMAIN segs :
          segs[j][1] * MinutesPerHour > current_hour_min(astimezone_ro(t)) } }

\* the first of them
NextOpening(segs, t) ==
    CHOOSE h \in LaterOpenings(segs, t) :
        \A k \in LaterOpenings(segs, t) : h <= k

\* the window starts while the location is closed, the next opening hour of
\* that local day is an hour of the clock, and it is at or after the window
\* end
OpensAfterWindow ==
    /\ ~OpenAt(start_window_utc, open_segs)
    /\ LaterOpenings(open_segs, start_window_utc) # {}
    /\ NextOpening(open_segs, start_window_utc) \in HourValues
    /\ Ge(LocalHourSameDay(start_window_utc,
                           NextOpening(open_segs, start_window_utc)),
          end_window_utc)

\* C17: when the window starts before the opening and the opening hour on
\* the window start's local day is at or after end_window_utc, the empty
\* list is returned whatever the reservations are
C17_OpensAfterWindowEmpty ==
    (pc = "done" /\ OpensAfterWindow) => (Returned /\ gaps = <<>>)

\* '10:00 - 18:00', local 08:00, one hour, with reservations
C17_Witness ==
    /\ Returned
    /\ OpensAfterWindow
    /\ program_str = Str_10_18
    /\ start_window_utc = Instant(0, 6, 0, 0, 0)
    /\ end_window_utc = Instant(0, 7, 0, 0, 0)
    /\ rezervari # <<>>
    /\ gaps = <<>>

\* ------------------------------------------------------------------------
\* parsed hours, segments and the open-now rule
\* ------------------------------------------------------------------------

\* C18: both hours parsed from any schedule string are in 0..24
C18_HoursInRange ==
    pc \in {"loop", "done"} =>
        /\ ora_deschidere \in 0..HoursPerDay
        /\ ora_inchidere \in 0..HoursPerDay

\* C19: for all hours in [0, 24), and for the larger hours that the parser
\* returns as well, the segments are (open, close) if open < close,
\* (0, close) then (open, 24) if open > close, (0, 24) if open = close, and
\* no two segments overlap
C19_SegmentCases ==
    pc = "segments_built" =>
        /\ ora_deschidere < ora_inchidere =>
              open_segs = << <<ora_deschidere, ora_inchidere>> >>
        /\ ora_deschidere > ora_inchidere =>
              open_segs = << <<0, ora_inchidere>>,
                             <<ora_deschidere, HoursPerDay>> >>
        /\ ora_deschidere = ora_inchidere =>
              open_segs = << <<0, HoursPerDay>> >>
        /\ \A i \in DOMAIN open_segs : \A j \in DOMAIN open_segs :
              i < j => \/ open_segs[i][2] <= open_segs[j][1]
                       \/ open_segs[j][2] <= open_segs[i][1]

\* an overnight pair has been split in two
C19_Witness ==
    /\ pc = "segments_built"
    /\ ora_deschidere = 22
    /\ ora_inchidere = 6
    /\ Len(open_segs) = 2

\* C20: if the local hour of the window start is in a segment (start
\* inclusive, end exclusive) the scan starts at the unmodified window start
\* and the closing hour is that segment's end; outside every segment (the
\* closing hour itself included) the window start is not kept
C20_OpenNow ==
    pc \in {"loop", "done"} =>
        /\ \A i \in DOMAIN open_segs :
              ( /\ open_segs[i][1] * MinutesPerHour
                     <= current_hour_min(astimezone_ro(start_window_utc))
                /\ current_hour_min(astimezone_ro(start_window_utc))
                     < open_segs[i][2] * MinutesPerHour )
              => /\ adjusted_start_utc = <<start_window_utc>>
                 /\ current_closing_hour = open_segs[i][2]
        /\ ~OpenAt(start_window_utc, open_segs)
              => adjusted_start_utc # <<start_window_utc>>

\* a window that starts exactly at the opening hour 08:00 local is scanned
\* from its start with closing hour 20
C20_Witness ==
    /\ Returned
    /\ program_str = Str_08_20
    /\ start_window_utc = Instant(0, 6, 0, 0, 0)
    /\ adjusted_start_utc = <<start_window_utc>>
    /\ current_closing_hour = 20
    /\ gaps # <<>>


\* ------------------------------------------------------------------------
\* the closed-now rules and the scanner's cut
\* ------------------------------------------------------------------------

\* the end of the segment that starts at hour s
EndOfSegmentAt(segs, s) ==
    segs[CHOOSE i \in DOMAIN segs : segs[i][1] = s][2]

\* the window starts outside every segment and some segment starts later
\* on that local day
ClosedOpensLater ==
    /\ ~OpenAt(start_window_utc, open_segs)
    /\ LaterOpenings(open_segs, start_window_utc) # {}

\* C21: when the window starts outside every segment and a segment starts
\* later that day, the scan start is the instant at local hour s, zero
\* minutes, seconds and sub-second part, of the window start's local day,
\* s the smallest later segment start, and the closing hour is the end of
\* that segment
C21_NextOpeningOnTheHour ==
    (pc \in {"loop", "done"} /\ ClosedOpensLater) =>
        /\ adjusted_start_utc
             = << LocalHourSameDay(start_window_utc,
                                   NextOpening(open_segs, start_window_utc)) >>
        /\ current_closing_hour
             = EndOfSegmentAt(open_segs,
                              NextOpening(open_segs, start_window_utc))

\* the window starts outside every segment and none starts later that day
ClosedForTheDay ==
    /\ ~OpenAt(start_window_utc, open_segs)
    /\ LaterOpenings(open_segs, start_window_utc) = {}

\* C22: when the window starts outside every segment and no segment starts
\* later on that local day, the empty list is returned, whatever the horizon
\* and the reservations
C22_ClosedForTheDayEmpty ==
    (pc = "done" /\ ClosedForTheDay) => (Returned /\ gaps = <<>>)

\* '10:00 - 18:00' at local 19:30 with a horizon into the next day and
\* reservations
C22_Witness ==
    /\ Returned
    /\ ClosedForTheDay
    /\ program_str = Str_10_18
    /\ start_window_utc = Instant(0, 17, 30, 0, 0)
    /\ end_window_utc = Instant(1, 9, 0, 0, 0)
    /\ rezervari # <<>>
    /\ gaps = <<>>

\* closingInstant(cursor, activeClose): the window end when activeClose is
\* 24, otherwise local hour activeClose on the cursor's local day
ClosingInstant(cursor, activeClose) ==
    IF activeClose = HoursPerDay THEN end_window_utc
    ELSE LocalHourSameDay(cursor, activeClose)

\* the later of two instants
Later(a, b) == IF Lt(a, b) THEN b ELSE a

\* the step appends one interval, from the cursor to limit
EmitsUpTo(limit) ==
    /\ Len(gaps') = Len(gaps) + 1
    /\ SubSeq(gaps', 1, Len(gaps)) = gaps
    /\ gaps'[Len(gaps')].start = current_time
    /\ gaps'[Len(gaps')].end = limit

\* the rule for one reservation of the loop
ReservationRule ==
    (pc = "loop" /\ rezervari_sorted # <<>> /\ pc' = "loop") =>
        /\ gaps' # gaps =>
              /\ Lt(current_time, fromisoformat(Head(rezervari_sorted).ora_start))
              /\ EmitsUpTo(Earlier(fromisoformat(Head(rezervari_sorted).ora_start),
                                   ClosingInstant(current_time,
                                                  current_closing_hour)))
        /\ current_time'
             = Later(current_time,
                     fromisoformat(Head(rezervari_sorted).ora_sfarsit))

\* the rule for the final interval
FinalRule ==
    (pc = "loop" /\ rezervari_sorted = <<>> /\ pc' = "done"
       /\ outcome' = "returned" /\ gaps' # gaps) =>
        EmitsUpTo(Earlier(end_window_utc,
                          ClosingInstant(current_time, current_closing_hour)))

\* C23: an interval emitted for a reservation is (cursor, min(reservation
\* start, closingInstant)), the final interval is (cursor, min(window end,
\* closingInstant)), closingInstant being the window end when the closing
\* hour is 24 and otherwise that local hour on the cursor's local day; after
\* each reservation the cursor is max(cursor, reservation end)
C23_ClippingRule == [][ReservationRule /\ FinalRule]_vars


\* ------------------------------------------------------------------------
\* order of the input, maximal free ranges, and the two versions
\* ------------------------------------------------------------------------

\* the lists with the same reservations in any order
Reorderings(s) ==
    { [i \in DOMAIN s |-> s[f[i]]] :
        f \in { g \in [DOMAIN s -> DOMAIN s] :
                  \A a \in DOMAIN s : \A b \in DOMAIN s :
                      a # b => g[a] # g[b] } }

AllWellFormed == \A r \in Range(rezervari) : WellFormed(r)

\* C26: when every reservation has start < end, every permutation of the
\* input list gives the same result
C26_OrderIndependent ==
    (pc = "done" /\ AllWellFormed) =>
        \A p \in Reorderings(rezervari) :
            calculeaza_gaps(start_window_utc, end_window_utc, p,
                            durata_minima_minute, program_str)
              = [outcome |-> outcome, gaps |-> gaps]

\* two different reservations with the same start instant, and a result
C26_Witness ==
    /\ Returned
    /\ AllWellFormed
    /\ Len(rezervari) = 2
    /\ rezervari[1] # rezervari[2]
    /\ fromisoformat(rezervari[1].ora_start)
         = fromisoformat(rezervari[2].ora_start)
    /\ fromisoformat(rezervari[1].ora_sfarsit)
         # fromisoformat(rezervari[2].ora_sfarsit)
    /\ gaps # <<>>

\* [a, b] lies in the window and meets no reservation
FreeRange(a, b) ==
    /\ Le(start_window_utc, a) /\ Lt(a, b) /\ Le(b, end_window_utc)
    /\ \A r \in Range(rezervari) : Apart([start |-> a, end |-> b], r)

\* the maximal free ranges of the window that are long enough
MaximalFreeRanges ==
    { g \in [start : Endpoints, end : Endpoints] :
        /\ FreeRange(g.start, g.end)
        /\ \A a \in Endpoints, b \in Endpoints :
              (FreeRange(a, b) /\ Le(a, g.start) /\ Le(g.end, b))
                  => (a = g.start /\ b = g.end)
        /\ whole_minutes(g.start, g.end) >= durata_minima_minute }

\* C27: with an always-open schedule, start < end and well-formed
\* reservations the result is exactly the maximal uncovered sub-ranges of
\* the window that are at least the minimum duration long, in ascending
\* order, and equals the result of main.py
C27_ExactlyMaximalFree ==
    (pc = "done" /\ program_str \in AlwaysOpenSchedules
       /\ Lt(start_window_utc, end_window_utc) /\ AllWellFormed) =>
        /\ outcome = "returned"
        /\ { [start |-> g.start, end |-> g.end] : g \in Range(gaps) }
             = MaximalFreeRanges
        /\ Ascending(gaps)
        /\ gaps = main_calculeaza_gaps(start_window_utc, end_window_utc,
                                       rezervari, durata_minima_minute)

\* C28: mainV2.py gives the result of mainV3.py on every input, the same
\* list or the same failure, and never reads current_closing_hour unassigned
C28_V2EqualsV3 ==
    pc = "done" =>
        /\ v2_calculeaza_gaps(start_window_utc, end_window_utc, rezervari,
                              durata_minima_minute, program_str)
             = [outcome |-> outcome, gaps |-> gaps]
        /\ outcome # "unbound"

\* a call whose closing hour was assigned with the next opening hour and
\* read by the scan
C28_Witness ==
    /\ Returned
    /\ ClosedOpensLater
    /\ gaps # <<>>


\* ------------------------------------------------------------------------
\* the reservation endpoints
\* ------------------------------------------------------------------------

\* C24: a creare_rezervare request whose select on table 'boxe' finds no box
\* with the boxa_id is answered with 404, and the step that answers it
\* inserts no row
C24_MissingBoxIsNotFound ==
    /\ []((raspuns.op = "creare_rezervare" /\ raspuns.boxa_info = "empty")
            => raspuns.status_code = 404)
    /\ [][(raspuns'.op = "creare_rezervare" /\ raspuns'.boxa_info = "empty")
            => tabel_rezervari' = tabel_rezervari]_vars

\* the step is an early_checkout answered with 200
CheckoutSucceeds ==
    /\ raspuns'.op = "early_checkout"
    /\ raspuns'.status_code = 200
    /\ now_utc' = now_utc
    /\ raspuns'.rezervare_id \in DOMAIN tabel_rezervari

\* C25: a successful early_checkout leaves the reservation 'finalizata' with
\* an ora_sfarsit not later than the one it had before the call
C25_CheckoutNotLater ==
    [][CheckoutSucceeds =>
         /\ tabel_rezervari'[raspuns'.rezervare_id].status = "finalizata"
         /\ Le(fromisoformat(
                   tabel_rezervari'[raspuns'.rezervare_id].ora_sfarsit),
               fromisoformat(
                   tabel_rezervari[raspuns'.rezervare_id].ora_sfarsit))]_vars

====
